---- MODULE Spec2Model ----
(***************************************************************************)
(* Model of terraform/main.go: the usage report of one Terraform module   *)
(* (NewModuleUsage, processUsage, countPattern), its display operations    *)
(* (Display, DisplayLocals, DisplayVariables, DisplayUnusedSimple,         *)
(* filterUnusedOnly) and parseModuleSource.                                *)
(*                                                                         *)
(* Text is a sequence of one-character strings.  A module directory is a   *)
(* sequence of files, a file a sequence of blocks; the bytes of a file are *)
(* the rendering of its blocks, and hclwrite's parse of those bytes gives  *)
(* the blocks back (m.file.Body().Blocks()) and the bytes unchanged        *)
(* (m.file.Bytes()).                                                       *)
(***************************************************************************)
EXTENDS Integers, Sequences, FiniteSets, TLC

VARIABLES dir, pc, ret, err, Variables, Locals, Modules, DataBlocks,
          call, out, attr, parsed

vars == <<dir, pc, ret, err, Variables, Locals, Modules, DataBlocks,
          call, out, attr, parsed>>

-----------------------------------------------------------------------------
(* Bounds *)

MaxBlocks == 2
MaxTail == 2
MaxRep == 2
MaxSourceFrags == 4

-----------------------------------------------------------------------------
(* Text *)

Digits == {"0", "1", "2", "3", "4", "5", "6", "7", "8", "9"}

(* The class \w of Go's regexp: [0-9A-Za-z_]. *)
WordChars ==
  Digits \cup {"_"} \cup
  {"a", "b", "c", "d", "e", "f", "g", "h", "i", "j", "k", "l", "m", "n", "o",
   "p", "q", "r", "s", "t", "u", "v", "w", "x", "y", "z"} \cup
  {"A", "B", "C", "D", "E", "F", "G", "H", "I", "J", "K", "L", "M", "N", "O",
   "P", "Q", "R", "S", "T", "U", "V", "W", "X", "Y", "Z"}

EmptyMap == << >>

RECURSIVE Concat(_)
Concat(ss) == IF ss = << >> THEN << >> ELSE Head(ss) \o Concat(Tail(ss))

Put_add(map, k, v) ==
  [x \in (DOMAIN map) \cup {k} |->
     IF x = k THEN (IF k \in DOMAIN map THEN map[k] + v ELSE v) ELSE map[x]]

(* map[k] = v *)
Put(map, k, v) ==
  [x \in (DOMAIN map) \cup {k} |-> IF x = k THEN v ELSE map[x]]

StartsWithAt(s, i, lit) ==
  /\ i + Len(lit) - 1 <= Len(s)
  /\ \A j \in 1..Len(lit) : s[i + j - 1] = lit[j]

-----------------------------------------------------------------------------
(* Blocks and their bytes *)

TypeChars(t) ==
  CASE t = "variable" -> <<"v","a","r","i","a","b","l","e">>
    [] t = "locals"   -> <<"l","o","c","a","l","s">>
    [] t = "module"   -> <<"m","o","d","u","l","e">>
    [] t = "data"     -> <<"d","a","t","a">>
    [] t = "output"   -> <<"o","u","t","p","u","t">>

RenderLabel(l) == <<" ", "\"">> \o l \o <<"\"">>

RenderAttr(a) == <<"\n", " ", " ">> \o a.name \o <<" ", "=", " ">> \o a.value

RenderBlock(b) ==
  TypeChars(b.type)
    \o Concat([i \in 1..Len(b.labels) |-> RenderLabel(b.labels[i])])
    \o <<" ", "{">>
    \o Concat([i \in 1..Len(b.attrs) |-> RenderAttr(b.attrs[i])])
    \o <<"\n", "}", "\n">>

FileData(f) == Concat([i \in 1..Len(f) |-> RenderBlock(f[i])])

-----------------------------------------------------------------------------
(* LoadTfModule: every file's data preceded by a newline. *)

LoadTfModule(d) ==
  IF d.readErr
  THEN [out |-> << >>, err |-> "load"]
  ELSE [out |-> Concat([i \in 1..Len(d.files) |-> <<"\n">> \o FileData(d.files[i])]),
        err |-> "nil"]

(* hclwrite.ParseConfig: diagnostics, the blocks of the body, the bytes. *)
ParseConfig(d, src) ==
  [hasErrors |-> d.syntaxErr,
   blocks    |-> Concat(d.files),
   bytes     |-> src]

-----------------------------------------------------------------------------
(* regexp: the patterns the program builds use literals, `\.`, `.`, `\W`. *)

RECURSIVE MustCompile(_)
MustCompile(p) ==
  IF p = << >> THEN << >>
  ELSE IF Head(p) = "\\"
       THEN (IF p[2] = "W" THEN <<[k |-> "nonword", c |-> ""]>>
                           ELSE <<[k |-> "lit", c |-> p[2]]>>)
            \o MustCompile(SubSeq(p, 3, Len(p)))
       ELSE (IF Head(p) = "." THEN <<[k |-> "any", c |-> ""]>>
                              ELSE <<[k |-> "lit", c |-> Head(p)]>>)
            \o MustCompile(Tail(p))

ElemMatches(e, ch) ==
  IF e.k = "lit" THEN e.c = ch
  ELSE IF e.k = "any" THEN ch # "\n"
  ELSE ch \notin WordChars

(* the pattern matches content[i .. i + Len(re) - 1]; the caller keeps that *)
(* range inside content                                                    *)
MatchAt(content, re, i) ==
  /\ ElemMatches(re[1], content[i])
  /\ \A j \in 2..Len(re) : ElemMatches(re[j], content[i + j - 1])

(* FindAllStringIndex(content, -1): the leftmost match, then the leftmost   *)
(* match that starts at or after the end of the previous one, and so on.   *)
(* hits is the set of positions where the pattern matches.                 *)
RECURSIVE NonOverlapping(_, _, _)
NonOverlapping(hits, from, len) ==
  LET rest == {i \in hits : i >= from}
  IN IF rest = {} THEN << >>
     ELSE LET i == CHOOSE x \in rest : \A y \in rest : x <= y
          IN <<i>> \o NonOverlapping(rest, i + len, len)

FindAllStringIndex(content, re) ==
  NonOverlapping({i \in 1..(Len(content) - Len(re) + 1) : MatchAt(content, re, i)},
                 1, Len(re))

countPattern(content, pattern) ==
  Len(FindAllStringIndex(content, MustCompile(pattern)))

-----------------------------------------------------------------------------
(* processUsage *)

DataKey(data_type, name) ==
  <<"d","a","t","a",".">> \o data_type \o <<".">> \o name

ModulePattern(name) == <<"m","o","d","u","l","e","\\",".">> \o name

VarPattern_noBoundary(name) == <<"v","a","r","\\",".">> \o name

VarPattern(name) == <<"v","a","r","\\",".">> \o name \o <<"\\","W">>

LocalPattern(attrib) == <<"l","o","c","a","l","\\",".">> \o attrib \o <<"\\","W">>

RECURSIVE processLocals(_, _, _)
processLocals(locals, attribs, bodyStr) ==
  IF attribs = << >> THEN locals
  ELSE processLocals(
         Put(locals, Head(attribs).name,
             countPattern(bodyStr, LocalPattern(Head(attribs).name))),
         Tail(attribs), bodyStr)

(* One iteration of the loop over body.Blocks().  u.panicked records an    *)
(* index out of range on block.Labels().                                   *)
processBlock(u, block, bodyStr) ==
  LET blockType == block.type
      u1 == IF blockType = "data"
            THEN IF Len(block.labels) < 2
                 THEN [u EXCEPT !.panicked = TRUE]
                 ELSE LET key == DataKey(block.labels[1], block.labels[2])
                      IN [u EXCEPT !.DataBlocks =
                                     Put(@, key, countPattern(bodyStr, key))]
            ELSE u
      u2 == IF blockType = "module" /\ ~u1.panicked
            THEN IF Len(block.labels) < 1
                 THEN [u1 EXCEPT !.panicked = TRUE]
                 ELSE LET name == block.labels[1]
                      IN [u1 EXCEPT !.Modules =
                            Put(@, name, countPattern(bodyStr, ModulePattern(name)))]
            ELSE u1
  IN IF u2.panicked THEN u2
     ELSE IF blockType = "variable"
     THEN IF Len(block.labels) < 1
          THEN [u2 EXCEPT !.panicked = TRUE]
          ELSE LET name == block.labels[1]
               IN [u2 EXCEPT !.Variables =
                     Put(@, name, countPattern(bodyStr, VarPattern(name)))]
     ELSE IF blockType = "locals"
     THEN [u2 EXCEPT !.Locals = processLocals(@, block.attrs, bodyStr)]
     ELSE u2

RECURSIVE processBlocks(_, _, _)
processBlocks(u, blocks, bodyStr) ==
  IF blocks = << >> \/ u.panicked THEN u
  ELSE processBlocks(processBlock(u, Head(blocks), bodyStr), Tail(blocks), bodyStr)

EmptyUsage ==
  [Variables |-> EmptyMap, Locals |-> EmptyMap, Modules |-> EmptyMap,
   DataBlocks |-> EmptyMap, panicked |-> FALSE]

processUsage(file) == processBlocks(EmptyUsage, file.blocks, file.bytes)

Maps(u) ==
  [Variables |-> u.Variables, Locals |-> u.Locals, Modules |-> u.Modules,
   DataBlocks |-> u.DataBlocks]

NewModuleUsage_ignoreDiags(d) ==
  LET load == LoadTfModule(d)
  IN IF load.err # "nil"
     THEN [ret |-> "nil", err |-> load.err, m |-> Maps(EmptyUsage)]
     ELSE LET f == ParseConfig(d, load.out)
              u == processUsage(f)
          IN IF u.panicked
             THEN [ret |-> "none", err |-> "panic", m |-> Maps(u)]
             ELSE [ret |-> "m", err |-> IF f.hasErrors THEN "parse" ELSE "nil",
                   m |-> Maps(u)]

(* NewModuleUsage(path): m is allocated with four empty maps; nil is       *)
(* returned when the load or the parse fails; a panic in processUsage      *)
(* returns nothing (ret "none").  m is the allocated object's maps.        *)
NewModuleUsage(d) ==
  LET load == LoadTfModule(d)
  IN IF load.err # "nil"
     THEN [ret |-> "nil", err |-> load.err, m |-> Maps(EmptyUsage)]
     ELSE LET f == ParseConfig(d, load.out)
          IN IF f.hasErrors
             THEN [ret |-> "nil", err |-> "parse", m |-> Maps(EmptyUsage)]
             ELSE LET u == processUsage(f)
                  IN IF u.panicked
                     THEN [ret |-> "none", err |-> "panic", m |-> Maps(u)]
                     ELSE [ret |-> "m", err |-> "nil", m |-> Maps(u)]

-----------------------------------------------------------------------------
(* filterUnusedOnly: deletes from the map it is given, and returns it. *)

filterUnusedOnly_moreThanOnce(items) ==
  [name \in {n \in DOMAIN items : ~(items[n] > 1)} |-> items[name]]

filterUnusedOnly_deleteAll(items) ==
  [name \in {n \in DOMAIN items : ~(items[n] >= 0)} |-> items[name]]

filterUnusedOnly(items) ==
  [name \in {n \in DOMAIN items : ~(items[n] > 0)} |-> items[name]]

(* Display.  m is the receiver's maps; the result carries the maps after   *)
(* the call (filterUnusedOnly works on the receiver's own maps), the error *)
(* and what was printed.                                                   *)
NoOutput ==
  [banner |-> FALSE, variablesFound |-> FALSE, localsFound |-> FALSE,
   variables |-> EmptyMap, locals |-> EmptyMap, modules |-> EmptyMap]

Display_filterCopy(r, dType, unusedOnly) ==
  IF dType \notin {"locals", "variables", "all"}
  THEN [m |-> r, err |-> "invalid display Type", out |-> NoOutput]
  ELSE [m |-> r, err |-> "nil",
        out |-> [NoOutput EXCEPT
                   !.banner = TRUE,
                   !.variables = IF dType \in {"variables", "all"}
                                 THEN (IF unusedOnly THEN filterUnusedOnly(r.Variables)
                                                     ELSE r.Variables)
                                 ELSE EmptyMap,
                   !.locals = IF dType \in {"locals", "all"}
                              THEN (IF unusedOnly THEN filterUnusedOnly(r.Locals)
                                                  ELSE r.Locals)
                              ELSE EmptyMap]]

Display_defaultAll(r, dType, unusedOnly) ==
  LET V == IF unusedOnly THEN filterUnusedOnly(r.Variables) ELSE r.Variables
      L == IF unusedOnly THEN filterUnusedOnly(r.Locals) ELSE r.Locals
  IN [m |-> [r EXCEPT !.Variables = V, !.Locals = L], err |-> "nil",
      out |-> [NoOutput EXCEPT
                 !.banner = TRUE,
                 !.variables = IF dType # "locals" THEN V ELSE EmptyMap,
                 !.locals = IF dType # "variables" THEN L ELSE EmptyMap]]

Display_filterBoth(r, dType, unusedOnly) ==
  IF dType \notin {"locals", "variables", "all"}
  THEN [m |-> r, err |-> "invalid display Type", out |-> NoOutput]
  ELSE LET V == IF unusedOnly THEN filterUnusedOnly(r.Variables) ELSE r.Variables
           L == IF unusedOnly THEN filterUnusedOnly(r.Locals) ELSE r.Locals
       IN [m |-> [r EXCEPT !.Variables = V, !.Locals = L], err |-> "nil",
           out |-> [NoOutput EXCEPT
                      !.banner = TRUE,
                      !.variables = IF dType \in {"variables", "all"} THEN V ELSE EmptyMap,
                      !.locals = IF dType \in {"locals", "all"} THEN L ELSE EmptyMap]]

Display(m, dType, unusedOnly) ==
  IF dType \notin {"locals", "variables", "all"}
  THEN [m |-> m, err |-> "invalid display Type", out |-> NoOutput]
  ELSE
    LET mLocals    == IF dType \in {"locals", "all"} /\ unusedOnly
                      THEN filterUnusedOnly(m.Locals) ELSE m.Locals
        mVariables == IF dType \in {"variables", "all"} /\ unusedOnly
                      THEN filterUnusedOnly(m.Variables) ELSE m.Variables
        locals     == IF dType \in {"locals", "all"} THEN mLocals ELSE EmptyMap
        variables  == IF dType \in {"variables", "all"} THEN mVariables ELSE EmptyMap
        modules    == EmptyMap
        nL == Cardinality(DOMAIN locals)
        nV == Cardinality(DOMAIN variables)
    IN [m   |-> [m EXCEPT !.Locals = mLocals, !.Variables = mVariables],
        err |-> "nil",
        out |-> [banner         |-> ~unusedOnly \/ nL + nV > 0,
                 variablesFound |-> dType \in {"all", "variables"}
                                    /\ (~unusedOnly \/ nV > 0),
                 localsFound    |-> dType \in {"all", "locals"}
                                    /\ (~unusedOnly \/ nL > 0),
                 variables      |-> IF dType \in {"all", "variables"}
                                    THEN variables ELSE EmptyMap,
                 locals         |-> IF dType \in {"all", "locals"}
                                    THEN locals ELSE EmptyMap,
                 modules        |-> IF dType \in {"all", "locals"}
                                    THEN modules ELSE EmptyMap]]

DisplayLocals(m, unusedOnly) == Display(m, "locals", unusedOnly)

DisplayVariables(m, unusedOnly) == Display(m, "variables", unusedOnly)

DisplayUnusedSimple(m, dType, unusedOnly) ==
  LET locals    == filterUnusedOnly(m.Locals)
      variables == filterUnusedOnly(m.Variables)
      modules   == filterUnusedOnly(m.Modules)
  IN [m   |-> [m EXCEPT !.Locals = locals, !.Variables = variables,
                        !.Modules = modules],
      err |-> "nil",
      out |-> [banner |-> TRUE, variablesFound |-> FALSE, localsFound |-> FALSE,
               variables |-> variables, locals |-> locals, modules |-> modules]]

-----------------------------------------------------------------------------
(* parseModuleSource *)

RefMark == <<"?", "r", "e", "f", "=", "v">>

RECURSIVE DigitsEnd(_, _)
\* the position after the longest run of digits of s that starts at p
DigitsEnd(s, p) ==
  IF p <= Len(s) /\ s[p] \in Digits THEN DigitsEnd(s, p + 1) ELSE p

RECURSIVE DottedEnd(_, _)
\* the end of the greedy repetition of "a dot and digits" from p
DottedEnd(s, p) ==
  IF p + 1 <= Len(s) /\ s[p] = "." /\ s[p + 1] \in Digits
  THEN DottedEnd(s, DigitsEnd(s, p + 1))
  ELSE p

\* the end of the greedy repetition of "a hyphen and any characters" from
\* p: a hyphen takes the rest of the string
SuffixEnd(s, p) == IF p <= Len(s) /\ s[p] = "-" THEN Len(s) + 1 ELSE p

\* moduleSourceRegexp.FindStringSubmatch(source).  The pattern is not
\* anchored: one or more characters, "?ref=v", digits, dotted digit groups,
\* hyphen suffixes.  The leftmost match starts at the first character; the
\* first group is greedy and so ends before the last "?ref=v" that a digit
\* follows.  << >> when there is no match, else
\* <<whole match, group 1, group 2>>.
FindStringSubmatch(source) ==
  LET I == {i \in 2..Len(source) :
              /\ StartsWithAt(source, i, RefMark)
              /\ i + Len(RefMark) <= Len(source)
              /\ source[i + Len(RefMark)] \in Digits}
  IN IF I = {} THEN << >>
     ELSE LET i  == CHOOSE x \in I : \A y \in I : y <= x
              vs == i + Len(RefMark)
              ve == SuffixEnd(source, DottedEnd(source, DigitsEnd(source, vs)))
          IN <<SubSeq(source, 1, ve - 1),
               SubSeq(source, 1, i - 1),
               SubSeq(source, vs, ve - 1)>>

parseModuleSource(a) ==
  LET tokens == a.tokens
  IN IF /\ Len(tokens) = 3
        /\ tokens[1].Type = "TokenOQuote"
        /\ tokens[2].Type = "TokenQuotedLit"
        /\ tokens[3].Type = "TokenCQuote"
     THEN LET source  == tokens[2].Bytes
              matched == FindStringSubmatch(source)
          IN IF Len(matched) = 0
             THEN [name |-> source, version |-> << >>]
             ELSE [name |-> matched[2], version |-> matched[3]]
     ELSE [name |-> << >>, version |-> << >>]

-----------------------------------------------------------------------------
(* Inputs: module directories *)

NameA == <<"a">>

NameVar == <<"v", "a", "r">>

StringLit == <<"\"", "x", "\"">>

SourceLit == <<"\"", ".", "/", "1", "\"">>

Block(t, labels, attrs) == [type |-> t, labels |-> labels, attrs |-> attrs]

Attr(n, v) == [name |-> n, value |-> v]

DataRef == <<"d","a","t","a",".">> \o NameA \o <<".">> \o NameA

DeclPool ==
  { Block("variable", <<NameA>>, << >>),
    Block("variable", <<NameVar>>, << >>),
    Block("locals", << >>, <<Attr(NameA, DataRef), Attr(NameVar, StringLit)>>),
    Block("module", <<NameA>>, <<Attr(<<"s","o","u","r","c","e">>, SourceLit)>>),
    Block("data", <<NameA, NameA>>, << >>) }

(* and a data block with one label only *)
DeclPoolShown == DeclPool \cup { Block("data", <<NameA>>, << >>) }

SeqsUpTo(S, n) == UNION {[1..k -> S] : k \in 0..n}

Prefixes ==
  { <<"v","a","r",".">>, <<"l","o","c","a","l",".">>,
    <<"m","o","d","u","l","e",".">>, <<"d","a","t","a",".">> }

TailFrags == { NameA, NameVar, <<".">> \o NameVar }

(* a reference: a prefix followed by up to maxTail fragments *)
Exprs(maxTail) ==
  { pre \o Concat(t) : pre \in Prefixes, t \in SeqsUpTo(TailFrags, maxTail) }

OutputLabel(i) == [j \in 1..i |-> "o"]

OutputBlock(i, e) ==
  Block("output", <<OutputLabel(i)>>, <<Attr(<<"v","a","l","u","e">>, e)>>)

(* a file of rep output blocks, each with the value e *)
Uses(e, rep) == [i \in 1..rep |-> OutputBlock(i, e)]

(* one reference of each kind, and a file with an output block for each    *)
(* reference chosen by picked                                              *)
RefPool ==
  << <<"v","a","r",".">> \o NameA, <<"l","o","c","a","l",".">> \o NameA,
     <<"m","o","d","u","l","e",".">> \o NameA >>

UsesOf(picked) ==
  Concat([i \in 1..Len(RefPool) |->
            IF i \in picked THEN <<OutputBlock(i, RefPool[i])>> ELSE << >>])

(* a directory: the declarations in one file, the uses in the next *)
Dir(fl, decls, uses) ==
  [readErr |-> fl[1], syntaxErr |-> fl[2],
   files |-> (IF decls = << >> THEN << >> ELSE <<decls>>) \o <<uses>>]

DirsShown ==
  { Dir(fl, decls, UsesOf(picked)) :
      fl \in {<<FALSE, FALSE>>, <<TRUE, FALSE>>, <<FALSE, TRUE>>},
      decls \in SeqsUpTo(DeclPoolShown, MaxBlocks),
      picked \in SUBSET (1..Len(RefPool)) }

DirsCounted ==
  { Dir(<<FALSE, FALSE>>, decls, Uses(e, rep)) :
      decls \in SeqsUpTo(DeclPool, MaxBlocks),
      e \in Exprs(MaxTail), rep \in 1..MaxRep }

EmptyDir == [readErr |-> FALSE, syntaxErr |-> FALSE, files |-> << >>]

(* Inputs: source attributes *)

SourceFrags == { NameA, RefMark, <<"1">>, <<".">>, <<"-">> }

SourceStrings ==
  { Concat(t) : t \in SeqsUpTo(SourceFrags, MaxSourceFrags) } \ { << >> }

Token(t, b) == [Type |-> t, Bytes |-> b]

QuotedLiteral(str) ==
  [tokens |-> <<Token("TokenOQuote", <<"\"">>), Token("TokenQuotedLit", str),
                Token("TokenCQuote", <<"\"">>)>>]

OtherAttrs ==
  { [tokens |-> <<Token("TokenOQuote", <<"\"">>), Token("TokenCQuote", <<"\"">>)>>],
    [tokens |-> <<Token("TokenIdent", NameVar), Token("TokenDot", <<".">>),
                  Token("TokenIdent", NameA)>>],
    [tokens |-> <<Token("TokenOQuote", <<"\"">>),
                  Token("TokenTemplateInterp", <<"$", "{">>),
                  Token("TokenIdent", NameA),
                  Token("TokenTemplateSeqEnd", <<"}">>),
                  Token("TokenCQuote", <<"\"">>)>>] }

SourceAttrs == { QuotedLiteral(str) : str \in SourceStrings } \cup OtherAttrs

NoAttr == [tokens |-> << >>]

NoParsed == [name |-> << >>, version |-> << >>]

-----------------------------------------------------------------------------
(* State *)

DisplayTypes == {"all", "variables", "locals", "modules"}

NoCall == [op |-> "none", dType |-> "", unusedOnly |-> FALSE]

m == [Variables |-> Variables, Locals |-> Locals, Modules |-> Modules,
      DataBlocks |-> DataBlocks]

InitWith(d) ==
  /\ dir = d
  /\ pc = "start"
  /\ ret = "none"
  /\ err = "nil"
  /\ Variables = EmptyMap
  /\ Locals = EmptyMap
  /\ Modules = EmptyMap
  /\ DataBlocks = EmptyMap
  /\ call = NoCall
  /\ out = NoOutput
  /\ attr = NoAttr
  /\ parsed = NoParsed

Init ==
  \E d \in DirsShown \cup {EmptyDir} : InitWith(d)

InitCount ==
  \E d \in DirsCounted : InitWith(d)

InitSource ==
  /\ dir = EmptyDir
  /\ pc = "source"
  /\ ret = "none"
  /\ err = "nil"
  /\ Variables = EmptyMap
  /\ Locals = EmptyMap
  /\ Modules = EmptyMap
  /\ DataBlocks = EmptyMap
  /\ call = NoCall
  /\ out = NoOutput
  /\ attr \in SourceAttrs
  /\ parsed = NoParsed

-----------------------------------------------------------------------------
(* Operations *)

CallNewModuleUsage ==
  /\ pc = "start"
  /\ \E r \in {NewModuleUsage(dir)} :
       /\ Variables' = r.m.Variables
       /\ Locals' = r.m.Locals
       /\ Modules' = r.m.Modules
       /\ DataBlocks' = r.m.DataBlocks
       /\ ret' = r.ret
       /\ err' = r.err
       /\ pc' = IF r.ret = "m" THEN "built"
                ELSE IF r.err = "panic" THEN "panicked" ELSE "failed"
  /\ call' = [op |-> "NewModuleUsage", dType |-> "", unusedOnly |-> FALSE]
  /\ UNCHANGED <<dir, out, attr, parsed>>

Apply(op, dType, unusedOnly, r) ==
  /\ Variables' = r.m.Variables
  /\ Locals' = r.m.Locals
  /\ Modules' = r.m.Modules
  /\ DataBlocks' = r.m.DataBlocks
  /\ err' = r.err
  /\ out' = r.out
  /\ call' = [op |-> op, dType |-> dType, unusedOnly |-> unusedOnly]
  /\ UNCHANGED <<dir, pc, ret, attr, parsed>>

CallDisplay ==
  /\ pc = "built"
  /\ \E dType \in DisplayTypes, unusedOnly \in BOOLEAN :
       Apply("Display", dType, unusedOnly, Display(m, dType, unusedOnly))

CallDisplayLocals ==
  /\ pc = "built"
  /\ \E unusedOnly \in BOOLEAN :
       Apply("DisplayLocals", "locals", unusedOnly, DisplayLocals(m, unusedOnly))

CallDisplayVariables ==
  /\ pc = "built"
  /\ \E unusedOnly \in BOOLEAN :
       Apply("DisplayVariables", "variables", unusedOnly,
             DisplayVariables(m, unusedOnly))

CallDisplayUnusedSimple ==
  /\ pc = "built"
  /\ \E dType \in DisplayTypes, unusedOnly \in BOOLEAN :
       Apply("DisplayUnusedSimple", dType, unusedOnly,
             DisplayUnusedSimple(m, dType, unusedOnly))

CallParseModuleSource ==
  /\ pc = "source"
  /\ parsed' = parseModuleSource(attr)
  /\ pc' = "parsed"
  /\ UNCHANGED <<dir, ret, err, Variables, Locals, Modules, DataBlocks,
                 call, out, attr>>

Next ==
  \/ CallNewModuleUsage
  \/ CallDisplay
  \/ CallDisplayLocals
  \/ CallDisplayVariables
  \/ CallDisplayUnusedSimple

Spec == Init /\ [][Next]_vars

NextCount == CallNewModuleUsage

SpecCount == InitCount /\ [][NextCount]_vars

NextSource == CallParseModuleSource

SpecSource == InitSource /\ [][NextSource]_vars

-----------------------------------------------------------------------------
(* Properties *)

Text == LoadTfModule(dir).out

AllBlocks == Concat(dir.files)

(* the maps a construction from dir builds *)
Built == NewModuleUsage(dir).m

DisplayOps == {"Display", "DisplayLocals", "DisplayVariables"}

ValidTypes == {"all", "variables", "locals"}

ZeroPart(map) == [n \in {k \in DOMAIN map : map[k] = 0} |-> 0]

OnlyZero(map) == \A n \in DOMAIN map : map[n] = 0

SubMap(small, big) ==
  /\ DOMAIN small \subseteq DOMAIN big
  /\ \A n \in DOMAIN small : small[n] = big[n]

KeepsZeros(small, big) ==
  \A n \in DOMAIN big : big[n] = 0 => n \in DOMAIN small

(* positions where lit occurs in text, character for character *)
Occurrences(text, lit) == {i \in 1..Len(text) : StartsWithAt(text, i, lit)}

(* positions where lit occurs in text followed by a non-word character *)
BoundedOccurrences(text, lit) ==
  {i \in Occurrences(text, lit) :
     /\ i + Len(lit) <= Len(text)
     /\ text[i + Len(lit)] \notin WordChars}

(* the largest number of occurrences of length len no two of which overlap *)
MaxDisjoint(hits, len) ==
  LET ok == {S \in SUBSET hits :
               \A i \in S, j \in S : i # j => (i - j >= len \/ j - i >= len)}
  IN CHOOSE k \in 0..Cardinality(hits) :
       /\ \E S \in ok : Cardinality(S) = k
       /\ \A S \in ok : Cardinality(S) <= k

VarRef(n) == <<"v","a","r",".">> \o n

LocalRef(n) == <<"l","o","c","a","l",".">> \o n

ModuleRef(n) == <<"m","o","d","u","l","e",".">> \o n

(* C1: a Display with unusedOnly = true emits, for each requested kind,    *)
(* exactly the declared symbols of that kind whose count is zero.          *)
C1_UnusedOnlyEmitsExactlyZeros ==
  (call.op \in DisplayOps /\ call.unusedOnly /\ call.dType \in ValidTypes) =>
    \A B \in {Built} :
      /\ call.dType \in {"variables", "all"} => out.variables = ZeroPart(B.Variables)
      /\ call.dType \in {"locals", "all"} => out.locals = ZeroPart(B.Locals)

C1_Witness ==
  /\ call.op = "Display" /\ call.unusedOnly /\ call.dType = "variables"
  /\ Cardinality(DOMAIN Built.Variables) = 2
  /\ Cardinality(DOMAIN out.variables) = 1

(* C2 as stated: the count of a variable n (a local n) is the number of    *)
(* all occurrences of var.n (local.n) followed by a non-word character.    *)
C2_Original ==
  pc = "built" =>
    \A T \in {Text} :
      /\ \A n \in DOMAIN Variables :
           Variables[n] = Cardinality(BoundedOccurrences(T, VarRef(n)))
      /\ \A n \in DOMAIN Locals :
           Locals[n] = Cardinality(BoundedOccurrences(T, LocalRef(n)))

(* C2 amended: the count of a variable n (a local n) is the largest number *)
(* of non-overlapping occurrences of var.n (local.n) followed by a         *)
(* non-word character; occurrences that continue with a word character     *)
(* are not counted.                                                        *)
C2_NonOverlappingBoundedCount ==
  pc = "built" =>
    \A T \in {Text} :
      /\ \A n \in DOMAIN Variables :
           Variables[n] = MaxDisjoint(BoundedOccurrences(T, VarRef(n)),
                                      Len(VarRef(n)) + 1)
      /\ \A n \in DOMAIN Locals :
           Locals[n] = MaxDisjoint(BoundedOccurrences(T, LocalRef(n)),
                                   Len(LocalRef(n)) + 1)

C2_Witness ==
  /\ pc = "built"
  /\ NameVar \in DOMAIN Variables
  /\ Variables[NameVar] > 0
  /\ Variables[NameVar] < Cardinality(BoundedOccurrences(Text, VarRef(NameVar)))

(* C3: after a Display with unusedOnly = true the requested maps hold only *)
(* zero counts, they stay so, and a later Display with unusedOnly = false  *)
(* emits the report's own, narrowed, map.                                  *)
C3_NarrowsInPlace ==
  [][ pc = "built" =>
        /\ (call'.op \in DisplayOps /\ call'.unusedOnly) =>
              /\ call'.dType \in {"variables", "all"} => OnlyZero(Variables')
              /\ call'.dType \in {"locals", "all"} => OnlyZero(Locals')
        /\ OnlyZero(Variables) => OnlyZero(Variables')
        /\ OnlyZero(Locals) => OnlyZero(Locals')
        /\ (call'.op \in DisplayOps /\ ~call'.unusedOnly) =>
              /\ call'.dType \in {"variables", "all"} => out'.variables = Variables
              /\ call'.dType \in {"locals", "all"} => out'.locals = Locals
    ]_vars

C3_Witness ==
  /\ call.op = "Display" /\ ~call.unusedOnly /\ call.dType = "variables"
  /\ ~OnlyZero(Built.Variables)
  /\ out.variables # EmptyMap
  /\ OnlyZero(out.variables)

(* C4: a Display with a display type other than all, variables or locals   *)
(* returns an error, prints nothing and changes none of the four maps.     *)
C4_InvalidTypeIsAnError ==
  [][ (call'.op = "Display" /\ call'.dType \notin ValidTypes) =>
        /\ err' # "nil"
        /\ out' = NoOutput
        /\ Variables' = Variables /\ Locals' = Locals
        /\ Modules' = Modules /\ DataBlocks' = DataBlocks
    ]_vars

C4_Witness ==
  /\ call.op = "Display" /\ call.dType = "modules" /\ call.unusedOnly
  /\ err = "invalid display Type"
  /\ ~OnlyZero(Variables)
  /\ ~OnlyZero(Locals)

(* C5: NewModuleUsage returns nil and an error, with nothing extracted,    *)
(* when the load or the parse fails; it returns a report only after a      *)
(* successful load and parse, with every block processed.                  *)
C5_NoPartialReport ==
  /\ (pc # "start" /\ (dir.readErr \/ dir.syntaxErr)) =>
        /\ ret = "nil" /\ err # "nil"
        /\ Variables = EmptyMap /\ Locals = EmptyMap
        /\ Modules = EmptyMap /\ DataBlocks = EmptyMap
  /\ ret = "m" => ~dir.readErr /\ ~dir.syntaxErr
  /\ (ret = "m" /\ call.op = "NewModuleUsage") =>
        /\ err = "nil"
        /\ \A i \in 1..Len(AllBlocks) :
             LET b == AllBlocks[i]
             IN /\ b.type = "variable" => b.labels[1] \in DOMAIN Variables
                /\ b.type = "module" => b.labels[1] \in DOMAIN Modules
                /\ b.type = "data" =>
                      DataKey(b.labels[1], b.labels[2]) \in DOMAIN DataBlocks
                /\ b.type = "locals" =>
                      \A j \in 1..Len(b.attrs) : b.attrs[j].name \in DOMAIN Locals

C5_Witness ==
  /\ pc = "failed" /\ dir.syntaxErr /\ ret = "nil" /\ err = "parse"
  /\ \E i \in 1..Len(AllBlocks) : AllBlocks[i].type = "variable"

(* C6: a module name declared by two module blocks has one entry, whose    *)
(* count is the number of occurrences of module.<name> in the full text,   *)
(* and the construction succeeds.                                          *)
C6_DuplicateModuleOneEntry ==
  pc # "start" =>
    \A bs \in {AllBlocks} :
      \A i \in 1..Len(bs), j \in 1..Len(bs) :
        (/\ i < j
         /\ bs[i].type = "module" /\ bs[j].type = "module"
         /\ bs[i].labels = bs[j].labels) =>
           LET name == bs[j].labels[1]
           IN /\ ret = "m" /\ err = "nil"
              /\ name \in DOMAIN Modules
              /\ Modules[name] = Cardinality(Occurrences(Text, ModuleRef(name)))

C6_Witness ==
  /\ pc = "built"
  /\ Len(AllBlocks) >= 3
  /\ AllBlocks[1].type = "module" /\ AllBlocks[2].type = "module"
  /\ AllBlocks[1].labels = AllBlocks[2].labels
  /\ Modules[NameA] = 2

(* C7: the count stored for a data block with labels (t, n) is the number  *)
(* of occurrences of data.t.n in the full text, character for character.   *)
C7_DataKeyLiteral ==
  pc = "built" =>
    \A i \in 1..Len(AllBlocks) :
      AllBlocks[i].type = "data" =>
        LET key == DataKey(AllBlocks[i].labels[1], AllBlocks[i].labels[2])
        IN /\ key \in DOMAIN DataBlocks
           /\ DataBlocks[key] = Cardinality(Occurrences(Text, key))

(* C8: a Display of locals prints no variable and leaves the variables,    *)
(* modules and data maps alone; a Display of variables prints no local and *)
(* leaves the locals, modules and data maps alone; neither is an error.    *)
C8_OtherKindsUntouched ==
  [][ /\ (call'.op \in DisplayOps /\ call'.dType = "locals") =>
           /\ err' = "nil"
           /\ out'.variables = EmptyMap
           /\ Variables' = Variables
           /\ Modules' = Modules /\ DataBlocks' = DataBlocks
      /\ (call'.op \in DisplayOps /\ call'.dType = "variables") =>
           /\ err' = "nil"
           /\ out'.locals = EmptyMap
           /\ Locals' = Locals
           /\ Modules' = Modules /\ DataBlocks' = DataBlocks
    ]_vars

C8_Witness ==
  /\ call.op = "Display" /\ call.dType = "locals" /\ call.unusedOnly
  /\ ~OnlyZero(Variables)
  /\ Locals # Built.Locals
  /\ out.locals # EmptyMap

RefSplits(str) ==
  {i \in 2..Len(str) : StartsWithAt(str, i, RefMark)}

(* digits, dotted digit groups, then optional suffixes that begin with a   *)
(* hyphen                                                                  *)
IsVersion(v) ==
  /\ v # << >>
  /\ LET H == {i \in 1..Len(v) : v[i] = "-"}
         h == IF H = {} THEN Len(v) + 1 ELSE CHOOSE x \in H : \A y \in H : x <= y
     IN /\ h > 1
        /\ v[1] \in Digits /\ v[h - 1] \in Digits
        /\ \A i \in 1..(h - 1) : v[i] \in Digits \cup {"."}
        /\ \A i \in 1..(h - 2) : ~(v[i] = "." /\ v[i + 1] = ".")

HasRefForm(str) ==
  \E i \in RefSplits(str) : IsVersion(SubSeq(str, i + Len(RefMark), Len(str)))

IsQuotedLiteral(a) ==
  /\ Len(a.tokens) = 3
  /\ a.tokens[1].Type = "TokenOQuote"
  /\ a.tokens[2].Type = "TokenQuotedLit"
  /\ a.tokens[3].Type = "TokenCQuote"

(* C9: a single quoted literal of the form <path>?ref=v<version> gives     *)
(* (path, version); any other single quoted literal gives itself and an    *)
(* empty version; anything else gives two empty strings; a non-empty       *)
(* version always reconstructs the literal.                                *)
C9_SourceDecomposition ==
  pc = "parsed" =>
    IF IsQuotedLiteral(attr)
    THEN LET str == attr.tokens[2].Bytes
         IN /\ HasRefForm(str) =>
                 \E i \in RefSplits(str) :
                   /\ parsed.name = SubSeq(str, 1, i - 1)
                   /\ parsed.version = SubSeq(str, i + Len(RefMark), Len(str))
            /\ ~HasRefForm(str) => parsed = [name |-> str, version |-> << >>]
            /\ parsed.version # << >> =>
                 parsed.name \o RefMark \o parsed.version = str
    ELSE parsed = [name |-> << >>, version |-> << >>]

(* C10: each of the four maps stays a sub-map of the map built at          *)
(* construction and keeps every entry whose count is zero, and a Display   *)
(* with unusedOnly = false removes nothing.                                *)
C10_OnlyFilteringMutates ==
  /\ [](pc = "built" =>
          \A B \in {Built} :
            /\ SubMap(Variables, B.Variables) /\ KeepsZeros(Variables, B.Variables)
            /\ SubMap(Locals, B.Locals) /\ KeepsZeros(Locals, B.Locals)
            /\ SubMap(Modules, B.Modules) /\ KeepsZeros(Modules, B.Modules)
            /\ SubMap(DataBlocks, B.DataBlocks)
            /\ KeepsZeros(DataBlocks, B.DataBlocks))
  /\ [][ (call'.op \in DisplayOps /\ ~call'.unusedOnly) =>
            /\ Variables' = Variables /\ Locals' = Locals
            /\ Modules' = Modules /\ DataBlocks' = DataBlocks
      ]_vars

C10_Witness ==
  /\ call.op = "DisplayUnusedSimple"
  /\ Modules # Built.Modules
  /\ Variables # EmptyMap

====
